---- MODULE Spec2Model ----
(***************************************************************************)
(* Blog SEO analyser (blog_seo_analyser.py): BlogSEOAnalyzer and main.     *)
(*                                                                         *)
(* Text is a TLA+ string; SubSeq, Len and \o act on it character by        *)
(* character.  Every regular expression of the source is written out as    *)
(* the matcher Python's re module runs for it (leftmost match, greedy      *)
(* quantifiers, backtracking where a shorter repetition can still succeed, *)
(* non-overlapping scan from left to right).                               *)
(***************************************************************************)
EXTENDS Integers, Sequences, FiniteSets, TLC

\* ------------------------------------------------------------ characters

\* The character at position i of text t ("" outside the text).
Ch(t, i) == IF i >= 1 /\ i <= Len(t) THEN SubSeq(t, i, i) ELSE ""

\* \s of the re module, and the characters str.strip() removes.
White == {" ", "\t", "\n", "\r"}

IsSpace(c) == c \in White

LowerOf ==
  [c \in {"A","B","C","D","E","F","G","H","I","J","K","L","M",
          "N","O","P","Q","R","S","T","U","V","W","X","Y","Z"} |->
     CASE c = "A" -> "a" [] c = "B" -> "b" [] c = "C" -> "c" [] c = "D" -> "d"
       [] c = "E" -> "e" [] c = "F" -> "f" [] c = "G" -> "g" [] c = "H" -> "h"
       [] c = "I" -> "i" [] c = "J" -> "j" [] c = "K" -> "k" [] c = "L" -> "l"
       [] c = "M" -> "m" [] c = "N" -> "n" [] c = "O" -> "o" [] c = "P" -> "p"
       [] c = "Q" -> "q" [] c = "R" -> "r" [] c = "S" -> "s" [] c = "T" -> "t"
       [] c = "U" -> "u" [] c = "V" -> "v" [] c = "W" -> "w" [] c = "X" -> "x"
       [] c = "Y" -> "y" [] c = "Z" -> "z"]

\* \w of the re module on the characters the documents use.
WordChars ==
  DOMAIN LowerOf \cup
  {"a","b","c","d","e","f","g","h","i","j","k","l","m",
   "n","o","p","q","r","s","t","u","v","w","x","y","z",
   "0","1","2","3","4","5","6","7","8","9","_"}

IsWordChar(c) == c \in WordChars

\* The first i in lo..hi with P(i), or 0 when there is none.
FirstIn(lo, hi, P(_)) ==
  IF \E i \in lo..hi : P(i)
  THEN CHOOSE i \in lo..hi : P(i) /\ \A j \in lo..(i - 1) : ~P(j)
  ELSE 0

\* The last i in lo..hi with P(i), or 0 when there is none.
LastIn(lo, hi, P(_)) ==
  IF \E i \in lo..hi : P(i)
  THEN CHOOSE i \in lo..hi : P(i) /\ \A j \in (i + 1)..hi : ~P(j)
  ELSE 0

\* A position found, or the end of the text when none was (0).
OrEnd(t, stop) == IF stop = 0 THEN Len(t) + 1 ELSE stop

\* The position after the run of whitespace that starts at i (i itself when
\* t[i] is no whitespace): where a greedy \s* or \s+ stops.
SkipSpace(t, i) == OrEnd(t, FirstIn(i, Len(t), LAMBDA j : ~IsSpace(Ch(t, j))))

\* The position of the line end at or after i: where a greedy .* stops and
\* where $ matches (before a newline, or at the end of the text).
LineEnd(t, i) == OrEnd(t, FirstIn(i, Len(t), LAMBDA j : Ch(t, j) = "\n"))

\* The position after the run of '#' that starts at i.
SkipHashes(t, i) == OrEnd(t, FirstIn(i, Len(t), LAMBDA j : Ch(t, j) # "#"))

\* ^ in MULTILINE mode.
AtLineStart(t, i) == i = 1 \/ Ch(t, i - 1) = "\n"

StripTo(t, first, last) == IF first = 0 THEN "" ELSE SubSeq(t, first, last)

\* str.strip()
Strip(t) ==
  StripTo(t, FirstIn(1, Len(t), LAMBDA j : ~IsSpace(Ch(t, j))),
             LastIn(1, Len(t), LAMBDA j : ~IsSpace(Ch(t, j))))

\* ------------------------------------------------- the regular expressions
\* Each XEnd(t, i) is the position after the match of pattern X that starts
\* at position i of t, or 0 when X does not match at i.

\* HeaderAt with the pattern of the title, r'^#\s+.*$': only a single '#'
\* makes a heading line.
HeaderAtH1Only(t, i, e) ==
  IF e - i = 1 /\ IsSpace(Ch(t, e)) THEN LineEnd(t, SkipSpace(t, e)) ELSE 0

\* HeaderAt without the whitespace after the '#', r'^#{1,6}.*$'.
HeaderAtNoSpace(t, i, e) ==
  IF e - i >= 1 /\ e - i <= 6 THEN LineEnd(t, e) ELSE 0

\* r'^#{1,6}\s+.*$', MULTILINE, at a line start i whose run of '#' ends
\* before e: 1 to 6 '#', whitespace (which may run over line ends), then the
\* rest of the line it stops in.
HeaderAt(t, i, e) ==
  IF e - i >= 1 /\ e - i <= 6 /\ IsSpace(Ch(t, e))
  THEN LineEnd(t, SkipSpace(t, e))
  ELSE 0

HeaderEnd(t, i) == IF AtLineStart(t, i) THEN HeaderAt(t, i, SkipHashes(t, i)) ELSE 0

\* (.+)$ after '#' and whitespace: j is where the whitespace stops, q the
\* last character of it that is no newline when it runs to the end of the
\* text (\s+ then gives characters back until (.+) finds that one).
TitleGroupAt(t, j, q) ==
  IF j <= Len(t) THEN <<j, LineEnd(t, j) - 1>>
  ELSE IF q # 0 THEN <<q, LineEnd(t, q) - 1>>
  ELSE <<0, 0>>

\* The group (.+) of r'^#\s+(.+)$', MULTILINE, matched at i: <<first, last>>,
\* or <<0, 0>> when the pattern does not match at i.
TitleGroup(t, i) ==
  IF AtLineStart(t, i) /\ Ch(t, i) = "#" /\ IsSpace(Ch(t, i + 1))
  THEN TitleGroupAt(t, SkipSpace(t, i + 1),
                    LastIn(i + 2, Len(t), LAMBDA k : Ch(t, k) # "\n"))
  ELSE <<0, 0>>

\* The position of the first character c at or after i, or 0.
Find(t, i, c) == FirstIn(i, Len(t), LAMBDA j : Ch(t, j) = c)

\* \([^\)]+\) from the '(' before position from, d the first ')' after it.
ParenClose(from, d) == IF d > from THEN d + 1 ELSE 0

LinkClose(t, i, c) ==
  IF c > i + 1 /\ Ch(t, c + 1) = "("
  THEN ParenClose(c + 2, Find(t, c + 2, ")"))
  ELSE 0

\* r'\[([^\]]+)\]\([^\)]+\)'
LinkEnd(t, i) == IF Ch(t, i) = "[" THEN LinkClose(t, i, Find(t, i + 1, "]")) ELSE 0

ImageClose(t, c) ==
  IF c # 0 /\ Ch(t, c + 1) = "("
  THEN ParenClose(c + 2, Find(t, c + 2, ")"))
  ELSE 0

\* r'!\[([^\]]*)\]\([^\)]+\)'
ImageEnd(t, i) ==
  IF Ch(t, i) = "!" /\ Ch(t, i + 1) = "[" THEN ImageClose(t, Find(t, i + 2, "]")) ELSE 0

\* The backtick.  A TLA+ string cannot hold that character, so the documents
\* of the model write it as '~', which they use for nothing else.
Backtick == "~"

IsFence(t, i) ==
  i + 2 <= Len(t) /\ SubSeq(t, i, i + 2) = Backtick \o Backtick \o Backtick

FenceClose(j) == IF j # 0 THEN j + 3 ELSE 0

\* Three backticks, lazily anything (newlines too), three backticks: the
\* code-block pattern of _clean_markdown.
FenceEnd(t, i) ==
  IF IsFence(t, i)
  THEN FenceClose(FirstIn(i + 3, Len(t), LAMBDA k : IsFence(t, k)))
  ELSE 0

\* One or more characters after position i up to the closing mark at c.
CloseAfter(i, c) == IF c > i + 1 THEN c + 1 ELSE 0

\* A backtick, one or more characters that are no backtick, a backtick: the
\* inline-code pattern of _clean_markdown.
InlineCodeEnd(t, i) ==
  IF Ch(t, i) = Backtick THEN CloseAfter(i, Find(t, i + 1, Backtick)) ELSE 0

BoldClose(t, i, c) == IF c > i + 2 /\ Ch(t, c + 1) = "*" THEN c + 2 ELSE 0

\* r'\*\*([^\*]+)\*\*'
BoldEnd(t, i) ==
  IF Ch(t, i) = "*" /\ Ch(t, i + 1) = "*" THEN BoldClose(t, i, Find(t, i + 2, "*")) ELSE 0

\* r'\*([^\*]+)\*'
ItalicEnd(t, i) == IF Ch(t, i) = "*" THEN CloseAfter(i, Find(t, i + 1, "*")) ELSE 0

BulletAt(t, j) ==
  IF Ch(t, j) \in {"-", "*", "+"} /\ IsSpace(Ch(t, j + 1))
  THEN SkipSpace(t, j + 1)
  ELSE 0

\* r'^[\s]*[-\*\+]\s+', MULTILINE
BulletEnd(t, i) == IF AtLineStart(t, i) THEN BulletAt(t, SkipSpace(t, i)) ELSE 0

\* .+ after the '#' and whitespace of a sub-heading, j and q as for the title.
SubHeadingText(t, j, q) ==
  IF j <= Len(t) THEN LineEnd(t, j)
  ELSE IF q # 0 THEN LineEnd(t, q)
  ELSE 0

SubHeadingAt(t, i, e) ==
  IF e - i >= 2 /\ e - i <= 6 /\ IsSpace(Ch(t, e))
  THEN SubHeadingText(t, SkipSpace(t, e),
                      LastIn(e + 1, Len(t), LAMBDA k : Ch(t, k) # "\n"))
  ELSE 0

\* r'^#{2,6}\s+.+', MULTILINE
SubHeadingEnd(t, i) ==
  IF AtLineStart(t, i) THEN SubHeadingAt(t, i, SkipHashes(t, i)) ELSE 0

PatEnd(p, t, i) ==
  CASE p = "header"     -> HeaderEnd(t, i)
    [] p = "link"       -> LinkEnd(t, i)
    [] p = "image"      -> ImageEnd(t, i)
    [] p = "fence"      -> FenceEnd(t, i)
    [] p = "inlinecode" -> InlineCodeEnd(t, i)
    [] p = "bold"       -> BoldEnd(t, i)
    [] p = "italic"     -> ItalicEnd(t, i)
    [] p = "bullet"     -> BulletEnd(t, i)
    [] p = "subheading" -> SubHeadingEnd(t, i)

\* The replacement of the match of p at i that ends before e: '' or r'\1'.
PatRepl(p, t, i, e) ==
  CASE p = "link"       -> SubSeq(t, i + 1, Find(t, i + 1, "]") - 1)
    [] p = "inlinecode" -> SubSeq(t, i + 1, e - 2)
    [] p = "bold"       -> SubSeq(t, i + 2, e - 3)
    [] p = "italic"     -> SubSeq(t, i + 1, e - 2)
    [] OTHER            -> ""

\* The first match of p at or after from, or 0.
NextMatch(p, t, from) == FirstIn(from, Len(t), LAMBDA j : PatEnd(p, t, j) # 0)

\* re.sub(p, repl, t), scanning from position from: the text up to the next
\* match at i, its replacement, and the same from the end e of the match.  No
\* pattern of the source matches the empty string.
RECURSIVE Sub(_, _, _)
Splice(p, t, from, i, e) ==
  SubSeq(t, from, i - 1) \o PatRepl(p, t, i, e) \o Sub(p, t, e)

SubAt(p, t, from, i) ==
  IF i = 0 THEN SubSeq(t, from, Len(t)) ELSE Splice(p, t, from, i, PatEnd(p, t, i))

Sub(p, t, from) == SubAt(p, t, from, NextMatch(p, t, from))

\* len(re.findall(p, t)), scanning from position from.
RECURSIVE CountMatches(_, _, _)
CountAt(p, t, i) == IF i = 0 THEN 0 ELSE 1 + CountMatches(p, t, PatEnd(p, t, i))

CountMatches(p, t, from) == CountAt(p, t, NextMatch(p, t, from))

\* ------------------------------------------------------------ the loader

RemoveHeaders(text) == Sub("header", text, 1)

RemoveLinks(text) == Sub("link", text, 1)

RemoveImages(text) == Sub("image", text, 1)

RemoveCodeBlocks(text) == Sub("fence", text, 1)

RemoveInlineCode(text) == Sub("inlinecode", text, 1)

RemoveEmphasis(text) == Sub("italic", Sub("bold", text, 1), 1)

RemoveLists(text) == Sub("bullet", text, 1)

\* BlogSEOAnalyzer._clean_markdown
CleanMarkdown(text) ==
  Strip(RemoveLists(RemoveEmphasis(RemoveInlineCode(RemoveCodeBlocks(
    RemoveImages(RemoveLinks(RemoveHeaders(text))))))))

TitleText(text, g) == Strip(SubSeq(text, g[1], g[2]))

TitleAt(old, text, i) == IF i = 0 THEN old ELSE TitleText(text, TitleGroup(text, i))

\* self.title after re.search(r'^#\s+(.+)$', text, re.MULTILINE) and, on a
\* match, self.title = group(1).strip(); without a match it stays what it
\* was (old).
ExtractTitle(old, text) ==
  TitleAt(old, text, FirstIn(1, Len(text), LAMBDA j : TitleGroup(text, j) # <<0, 0>>))

\* ------------------------------------------------------------ the scorers

Max(a, b) == IF a >= b THEN a ELSE b

\* The limits the scorers compare with.
TitleMinLen == 30
TitleMaxLen == 60
MinWords == 300
MaxWords == 2000
MetaMaxLen == 150
MetaCutLen == 147

\* len(title.lower().split()): the maximal runs of characters that are no
\* whitespace.
SplitCount(t) ==
  Cardinality({i \in 1..Len(t) : ~IsSpace(Ch(t, i)) /\ (i = 1 \/ IsSpace(Ch(t, i - 1)))})

\* BlogSEOAnalyzer.analyze_title: the dictionary it returns.  Without a title
\* the dictionary has the keys "score" and "issues" only.
AnalyzeTitle(title) ==
  IF title = ""
  THEN [score |-> 0, issues |-> <<"No title found (first # heading)">>]
  ELSE LET length == Len(title)
           lenPenalty == IF length < TitleMinLen THEN 30
                         ELSE IF length > TitleMaxLen THEN 20 ELSE 0
           lenIssue == IF length < TitleMinLen THEN <<"Title too short (< 30 characters)">>
                       ELSE IF length > TitleMaxLen THEN <<"Title too long (> 60 characters)">>
                       ELSE <<>>
           fewWords == SplitCount(title) < 3
       IN  [score |-> Max(0, 100 - lenPenalty - (IF fewWords THEN 10 ELSE 0)),
            length |-> length,
            issues |-> lenIssue \o (IF fewWords THEN <<"Title lacks descriptive keywords">>
                                    ELSE <<>>),
            suggestions |-> <<"Include primary keyword in title",
                              "Keep title between 30-60 characters">>]

\* str.lower() on t[lo..hi].
RECURSIVE LowerRange(_, _, _)
LowerRange(t, lo, hi) ==
  IF lo > hi THEN ""
  ELSE IF lo = hi
       THEN (IF Ch(t, lo) \in DOMAIN LowerOf THEN LowerOf[Ch(t, lo)] ELSE Ch(t, lo))
       ELSE LowerRange(t, lo, (lo + hi) \div 2)
              \o LowerRange(t, (lo + hi) \div 2 + 1, hi)

Lower(t) == LowerRange(t, 1, Len(t))

\* Where the matches of r'\b\w+\b' start: the maximal runs of word characters.
WordStarts(t) ==
  {i \in 1..Len(t) : IsWordChar(Ch(t, i)) /\ ~IsWordChar(Ch(t, i - 1))}

\* The word that starts at i.
WordAt(t, i) ==
  SubSeq(t, i, OrEnd(t, FirstIn(i, Len(t), LAMBDA j : ~IsWordChar(Ch(t, j)))) - 1)

stop_words ==
  {"the", "a", "an", "and", "or", "but", "in", "on", "at", "to", "for", "of",
   "with", "by", "is", "are", "was", "were", "be", "been", "being", "have",
   "has", "had", "do", "does", "did", "will", "would", "could", "should",
   "may", "might", "must", "can", "shall"}

\* The test of filtered_words.
IsFiltered(word) == word \notin stop_words /\ Len(word) > 2

\* The positions of filtered_words.
FilteredStarts(t) == {i \in WordStarts(t) : IsFiltered(WordAt(t, i))}

\* word_freq[w] for the words starting at the positions kept.
WordFreq(t, kept, w) == Cardinality({i \in kept : WordAt(t, i) = w})

\* Where w is first met: its place in the Counter's insertion order.
FirstSeen(t, kept, w) ==
  CHOOSE i \in kept : WordAt(t, i) = w /\ \A j \in kept : WordAt(t, j) = w => i <= j

\* The word of vocab that most_common puts first: the highest count, and
\* among equal counts the word first met.
Best(t, kept, vocab) ==
  CHOOSE w \in vocab : \A v \in vocab :
    \/ WordFreq(t, kept, w) > WordFreq(t, kept, v)
    \/ /\ WordFreq(t, kept, w) = WordFreq(t, kept, v)
       /\ FirstSeen(t, kept, w) <= FirstSeen(t, kept, v)

\* word_freq.most_common(n) from the words of vocab.
RECURSIVE MostCommon(_, _, _, _)
Ranked(t, kept, vocab, n, best) ==
  <<best>> \o MostCommon(t, kept, vocab \ {best}, n - 1)

MostCommon(t, kept, vocab, n) ==
  IF n = 0 \/ vocab = {} THEN <<>> ELSE Ranked(t, kept, vocab, n, Best(t, kept, vocab))

\* TopKeywords keeping the words met once as well (count > 0).
TopKeywordsOnce(t, kept) ==
  SelectSeq(MostCommon(t, kept, {WordAt(t, i) : i \in kept}, 10),
            LAMBDA w : WordFreq(t, kept, w) > 0)

\* The words of most_common(10) with count > 1.
TopKeywords(t, kept) ==
  SelectSeq(MostCommon(t, kept, {WordAt(t, i) : i \in kept}, 10),
            LAMBDA w : WordFreq(t, kept, w) > 1)

\* self.keywords of analyze_content for the lower-cased content t.
Keywords(t) == TopKeywords(t, FilteredStarts(t))

\* The first occurrence of w in t at or after from, or 0.
FindText(t, w, from) ==
  FirstIn(from, Len(t) - Len(w) + 1, LAMBDA j : SubSeq(t, j, j + Len(w) - 1) = w)

\* t.count(w) from position from: the occurrences that do not overlap, from
\* the left (w is never empty here).
RECURSIVE CountText(_, _, _)
CountTextAt(t, w, i) == IF i = 0 THEN 0 ELSE 1 + CountText(t, w, i + Len(w))

CountText(t, w, from) == CountTextAt(t, w, FindText(t, w, from))

Prefix(s, n) == SubSeq(s, 1, IF Len(s) < n THEN Len(s) ELSE n)

\* ContentScored with the density left a fraction (count / word_count, not
\* multiplied by 100) and compared with 0.5 and 3 all the same.
ContentScoredNoPercent(word_count, keywords, occurrences) ==
  LET tooShort == word_count < MinWords
      tooLong == word_count >= MinWords /\ word_count > MaxWords
      lowDensity == keywords # <<>> /\ 2 * occurrences < word_count
      highDensity == /\ keywords # <<>>
                     /\ 2 * occurrences >= word_count
                     /\ occurrences > 3 * word_count
  IN  [score |-> Max(0, 100 - (IF tooShort THEN 40 ELSE 0) - (IF tooLong THEN 10 ELSE 0)
                            - (IF lowDensity THEN 15 ELSE 0)
                            - (IF highDensity THEN 10 ELSE 0)),
       word_count |-> word_count,
       keywords |-> Prefix(keywords, 5),
       issues |->
         (IF tooShort THEN <<"Content too short (< 300 words)">> ELSE <<>>)
         \o (IF tooLong THEN <<"Content very long (> 2000 words)">> ELSE <<>>)
         \o (IF lowDensity THEN <<"Low keyword density (< 0.5%)">> ELSE <<>>)
         \o (IF highDensity
             THEN <<"High keyword density (> 3% - may be keyword stuffing)">>
             ELSE <<>>),
       suggestions |-> <<"Aim for 300-1500 words", "Use primary keyword naturally",
                         "Include related keywords">>,
       all_keywords |-> keywords,
       div_by_zero |-> keywords # <<>> /\ word_count = 0]

\* The scoring of analyze_content from word_count, self.keywords and the
\* count of the primary keyword in the content.  density = count /
\* word_count * 100 is compared with 0.5 and 3 as exact fractions, which is
\* what the float comparison yields for every count and word_count up to
\* thousands.  "all_keywords" is self.keywords; "div_by_zero" tells whether
\* the density division is reached with word_count = 0 (ZeroDivisionError).
ContentScored(word_count, keywords, occurrences) ==
  LET tooShort == word_count < MinWords
      tooLong == word_count >= MinWords /\ word_count > MaxWords
      lowDensity == keywords # <<>> /\ 200 * occurrences < word_count
      highDensity == /\ keywords # <<>>
                     /\ 200 * occurrences >= word_count
                     /\ 100 * occurrences > 3 * word_count
  IN  [score |-> Max(0, 100 - (IF tooShort THEN 40 ELSE 0) - (IF tooLong THEN 10 ELSE 0)
                            - (IF lowDensity THEN 15 ELSE 0)
                            - (IF highDensity THEN 10 ELSE 0)),
       word_count |-> word_count,
       keywords |-> Prefix(keywords, 5),
       issues |->
         (IF tooShort THEN <<"Content too short (< 300 words)">> ELSE <<>>)
         \o (IF tooLong THEN <<"Content very long (> 2000 words)">> ELSE <<>>)
         \o (IF lowDensity THEN <<"Low keyword density (< 0.5%)">> ELSE <<>>)
         \o (IF highDensity
             THEN <<"High keyword density (> 3% - may be keyword stuffing)">>
             ELSE <<>>),
       suggestions |-> <<"Aim for 300-1500 words", "Use primary keyword naturally",
                         "Include related keywords">>,
       all_keywords |-> keywords,
       div_by_zero |-> keywords # <<>> /\ word_count = 0]

\* self.content.lower().count(primary_keyword), 0 without keywords.
PrimaryCount(low, keywords) ==
  IF keywords = <<>> THEN 0 ELSE CountText(low, keywords[1], 1)

ContentCounted(low, word_count, keywords) ==
  ContentScored(word_count, keywords, PrimaryCount(low, keywords))

ContentOf(low) == ContentCounted(low, Cardinality(WordStarts(low)), Keywords(low))

\* BlogSEOAnalyzer.analyze_content on self.content = content.
AnalyzeContent(content) == ContentOf(Lower(content))

\* The scoring of analyze_structure from its three counts.
StructureScored(headings, lists, links) ==
  [score |-> Max(0, 100 - (IF headings < 2 THEN 20 ELSE 0)
                        - (IF lists < 1 THEN 10 ELSE 0)
                        - (IF links < 1 THEN 5 ELSE 0)),
   headings_count |-> headings,
   lists_count |-> lists,
   links_count |-> links,
   issues |->
     (IF headings < 2 THEN <<"Few or no subheadings (H2-H6)">> ELSE <<>>)
     \o (IF lists < 1 THEN <<"No bullet lists found">> ELSE <<>>)
     \o (IF links < 1 THEN <<"No internal/external links">> ELSE <<>>),
   suggestions |-> <<"Use H2/H3 headings to structure content",
                     "Include bullet lists for readability",
                     "Add relevant internal/external links">>]

\* len(headings) of analyze_structure.
CountHeadings(content) == CountMatches("subheading", content, 1)

\* BlogSEOAnalyzer.analyze_structure on self.content = content.
AnalyzeStructure(content) ==
  StructureScored(CountHeadings(content), CountMatches("bullet", content, 1),
                  CountMatches("link", content, 1))

\* re.sub(r'\s+', ' ', t) on t[lo..hi]: a whitespace character becomes ' '
\* when it starts a run of whitespace and nothing otherwise.
RECURSIVE CollapseRange(_, _, _)
CollapseRange(t, lo, hi) ==
  IF lo > hi THEN ""
  ELSE IF lo = hi
       THEN (IF ~IsSpace(Ch(t, lo)) THEN Ch(t, lo)
             ELSE IF IsSpace(Ch(t, lo - 1)) THEN "" ELSE " ")
       ELSE CollapseRange(t, lo, (lo + hi) \div 2)
              \o CollapseRange(t, (lo + hi) \div 2 + 1, hi)

Collapse(t) == CollapseRange(t, 1, Len(t))

\* Truncate cutting at the limit itself: 150 characters and the ellipsis.
TruncateLate(clean_content) ==
  IF Len(clean_content) > MetaMaxLen
  THEN SubSeq(clean_content, 1, MetaMaxLen) \o "..."
  ELSE clean_content

\* desc of generate_meta_description from clean_content.
Truncate(clean_content) ==
  IF Len(clean_content) > MetaMaxLen
  THEN SubSeq(clean_content, 1, MetaCutLen) \o "..."
  ELSE clean_content

\* BlogSEOAnalyzer.generate_meta_description
GenerateMetaDescription(title, content) ==
  IF title = ""
  THEN "No title available for meta description generation"
  ELSE Truncate(Collapse(Strip(content)))

\* RoundedMean cutting the mean off after the first decimal.
RoundedMeanTruncated(scores) == (10 * (scores[1] + scores[2] + scores[3])) \div Len(scores)

\* round(sum(scores) / len(scores), 1), in tenths (617 is 61.7): to the
\* nearest tenth, a tie to the even one as Python's round does.
RoundedMean(scores) ==
  LET total == scores[1] + scores[2] + scores[3]
      n == Len(scores)
      q == (10 * total) \div n
      r == (10 * total) % n
  IN  IF 2 * r < n THEN q
      ELSE IF 2 * r > n THEN q + 1
      ELSE IF q % 2 = 0 THEN q ELSE q + 1

\* The dictionary run_analysis builds from what the scorers and the
\* generator returned.
Assemble(ta, ca, sa, meta) ==
  [title_analysis |-> ta,
   content_analysis |-> [k \in DOMAIN ca \ {"all_keywords", "div_by_zero"} |-> ca[k]],
   structure_analysis |-> sa,
   meta_description |-> meta,
   overall_score |-> RoundedMean(<<ta.score, ca.score, sa.score>>)]

\* One section of print_report for the analysis a: the score line and the
\* lines pre, then the issues and the suggestions.  a["suggestions"] is read
\* without a test that the key is there: "raised" tells that it was not
\* (KeyError), and the lines are those printed until then.
Section(name, a, pre) ==
  LET head == <<<<name, a.score>>>> \o pre
      issues == IF a.issues # <<>>
                THEN <<<<"Issues:", 0>>>> \o [i \in 1..Len(a.issues) |-> <<a.issues[i], 0>>]
                ELSE <<>>
  IN  IF "suggestions" \notin DOMAIN a
      THEN [lines |-> head \o issues, raised |-> TRUE]
      ELSE [lines |-> head \o issues
                      \o (IF a.suggestions # <<>>
                          THEN <<<<"Suggestions:", 0>>>>
                               \o [i \in 1..Len(a.suggestions) |-> <<a.suggestions[i], 0>>]
                          ELSE <<>>),
            raised |-> FALSE]

\* The report from its head, its three sections and its tail: it stops at
\* the first section that raised.
ReportOf(top, s1, s2, s3, tail) ==
  IF s1.raised THEN [lines |-> top \o s1.lines, raised |-> TRUE]
  ELSE IF s2.raised THEN [lines |-> top \o s1.lines \o s2.lines, raised |-> TRUE]
  ELSE IF s3.raised
       THEN [lines |-> top \o s1.lines \o s2.lines \o s3.lines, raised |-> TRUE]
  ELSE [lines |-> top \o s1.lines \o s2.lines \o s3.lines \o tail, raised |-> FALSE]

\* BlogSEOAnalyzer.print_report with a non-empty analysis_results: the lines
\* printed, each a pair of its text and the number or text it shows, and
\* whether print_report raised before the end.
ReportLines(title, keywords, results) ==
  ReportOf(<<<<"==", 0>>, <<"SEO Analysis Report for:", 0>>, <<"==", 0>>,
             <<"Overall SEO Score", results.overall_score>>>>,
           Section("Title Analysis", results.title_analysis,
                   IF title # ""
                   THEN <<<<"Title:", title>>,
                          <<"Length:", results.title_analysis.length>>>>
                   ELSE <<>>),
           Section("Content Analysis", results.content_analysis,
                   <<<<"Word Count:", results.content_analysis.word_count>>>>
                   \o (IF keywords # <<>>
                       THEN <<<<"Top Keywords:", Prefix(keywords, 3)>>>>
                       ELSE <<>>)),
           Section("Structure Analysis", results.structure_analysis,
                   <<<<"Headings:", results.structure_analysis.headings_count>>,
                     <<"Lists:", results.structure_analysis.lists_count>>,
                     <<"Links:", results.structure_analysis.links_count>>>>),
           <<<<"Suggested Meta Description:", 0>>,
             <<"meta", results.meta_description>>, <<"==", 0>>>>)

\* ---- state ---------------------------------------------------------------

\* ---------------------------------------------------------- the documents

\* The string w written n times.
RECURSIVE Rep(_, _)
Twice(half, w, odd) == IF odd THEN half \o half \o w ELSE half \o half

Rep(w, n) == IF n <= 0 THEN "" ELSE Twice(Rep(w, n \div 2), w, n % 2 = 1)

\* The most lines a composed document has.
MaxLines == 2

\* The lines the composed documents are made of.
Lines ==
  {"", "# My Post", "## Part", "- ## Sub", " ## Sub", "#", "#  ",
   "foo Bar foo", "- item", "[a](b)", "![](u)## x", "**The** *end*",
   "~c~", "~~~", "#tag 2*3 a - b [y] (z)!", "  plain"}

\* The documents of at most n lines of Lines, joined by newlines.
RECURSIVE Composed(_)
OneMoreLine(shorter) ==
  shorter \cup Lines \cup {d \o "\n" \o l : d \in shorter \ {""}, l \in Lines}

Composed(n) == IF n = 0 THEN {""} ELSE OneMoreLine(Composed(n - 1))

\* First lines for the long documents: none, and titles on either side of
\* the two length limits, of one word and of three.
TitleLines ==
  {"",
   "# Hello",
   "# " \o Rep("t", TitleMinLen),
   "# my big " \o Rep("t", TitleMinLen - 7),
   "# " \o Rep("t", TitleMaxLen + 1),
   "# my big " \o Rep("t", TitleMaxLen - 6)}

\* <<filler words, keyword words>> of the long bodies: word counts on either
\* side of MinWords and MaxWords, keyword densities on either side of 0.5%
\* and 3%.
WordMixes ==
  {<<0, 0>>, <<0, 2>>, <<1, 1>>,
   <<MinWords - 3, 2>>, <<MinWords - 2, 2>>, <<MinWords - 10, 10>>,
   <<2 * 200 - 2, 2>>, <<2 * 200 - 1, 2>>,
   <<MaxWords - 2, 2>>, <<MaxWords - 1, 2>>,
   <<MaxWords - 19, 20>>, <<MaxWords - 60, 61>>}

Bodies ==
  {Rep("a ", m[1]) \o Rep("foo ", m[2]) : m \in WordMixes}
  \cup {Rep("x", MetaMaxLen), Rep("x", MetaMaxLen + 1),
        "x" \o Rep(" ", MetaMaxLen) \o "y", "Short text."}

LongDocs == {t \o "\n\n" \o b : t \in TitleLines, b \in Bodies}

Docs == Composed(MaxLines) \cup LongDocs

\* What open(file_path) and f.read() meet: no such file, a file that cannot
\* be read or decoded, or a text.
Files ==
  {[kind |-> "missing", text |-> ""], [kind |-> "unreadable", text |-> ""]}
  \cup {[kind |-> "text", text |-> d] : d \in Docs}

\* ------------------------------------------------------------- the state

VARIABLES
  argc,              \* len(sys.argv)
  file,              \* what is at file_path
  pc,                \* where main is, or what load_content last returned
  content,           \* self.content
  title,             \* self.title
  word_count,        \* self.word_count
  keywords,          \* self.keywords
  analysis_results,  \* self.analysis_results
  returned,          \* what each scorer called on the analyzer returned last
  stdout,            \* the lines printed
  exit_code          \* the exit status of the process, -1 while it runs

vars == <<argc, file, pc, content, title, word_count, keywords,
          analysis_results, returned, stdout, exit_code>>

\* {} as analysis_results, and nothing returned yet.
EmptyDict == <<>>

\* BlogSEOAnalyzer.__init__
Constructed ==
  /\ content = ""
  /\ title = ""
  /\ word_count = 0
  /\ keywords = <<>>
  /\ analysis_results = EmptyDict
  /\ returned = [m \in {"analyze_title", "analyze_content", "analyze_structure",
                        "generate_meta_description"} |-> <<>>]

\* The line load_content prints when it fails.
LoadError(f) ==
  IF f.kind = "missing" THEN <<<<"Error: File not found.", 0>>>>
  ELSE <<<<"Error reading file:", 0>>>>

\* ------------------------------------------------------------- main

Init ==
  /\ \/ argc = 2 /\ file \in Files
     \/ argc \in {1, 3} /\ file = [kind |-> "missing", text |-> ""]
  /\ pc = "main"
  /\ Constructed
  /\ stdout = <<>>
  /\ exit_code = -1

\* main with a wrong number of arguments: the usage, exit status 1.
MainUsage ==
  /\ pc = "main"
  /\ argc # 2
  /\ stdout' = stdout \o <<<<"Usage:", 0>>, <<"Example:", 0>>>>
  /\ exit_code' = 1
  /\ pc' = "exited"
  /\ UNCHANGED <<argc, file, content, title, word_count, keywords,
                 analysis_results, returned>>

\* main up to the call of run_analysis: the analyzer is constructed.
MainStart ==
  /\ pc = "main"
  /\ argc = 2
  /\ pc' = "run_analysis"
  /\ UNCHANGED <<argc, file, content, title, word_count, keywords,
                 analysis_results, returned, stdout, exit_code>>

\* The assignments of run_analysis for the title t and the content c that
\* load_content set and the dictionary ca that analyze_content returned.
Analysed(t, c, ca) ==
  /\ title' = t
  /\ content' = c
  /\ word_count' = ca.word_count
  /\ keywords' = ca.all_keywords
  /\ analysis_results' =
       IF ca.div_by_zero THEN analysis_results
       ELSE Assemble(AnalyzeTitle(t), ca, AnalyzeStructure(c),
                     GenerateMetaDescription(t, c))
  /\ pc' = IF ca.div_by_zero THEN "exited" ELSE "print_report"
  /\ exit_code' = IF ca.div_by_zero THEN 1 ELSE exit_code

Loaded(t, c) == Analysed(t, c, AnalyzeContent(c))

\* RunAnalysisFailed with a load_content that prints its error and returns
\* True all the same: the analysis goes on with what __init__ set.
RunAnalysisFailedGoesOn ==
  /\ pc = "run_analysis"
  /\ file.kind # "text"
  /\ stdout' = stdout \o LoadError(file)
  /\ Loaded(title, content)
  /\ UNCHANGED <<argc, file, returned>>

\* run_analysis when load_content returns False: it returns None, and main
\* exits with status 1.
RunAnalysisFailed ==
  /\ pc = "run_analysis"
  /\ file.kind # "text"
  /\ stdout' = stdout \o LoadError(file)
  /\ exit_code' = 1
  /\ pc' = "exited"
  /\ UNCHANGED <<argc, file, content, title, word_count, keywords,
                 analysis_results, returned>>

\* run_analysis when load_content returns True: title and content are set,
\* the three scorers and the generator run, the overall score is added.  The
\* dictionary returned is not empty, so main goes on to print_report; an
\* exception in a scorer ends the process with status 1.
RunAnalysis ==
  /\ pc = "run_analysis"
  /\ file.kind = "text"
  /\ Loaded(ExtractTitle(title, file.text), CleanMarkdown(file.text))
  /\ UNCHANGED <<argc, file, returned, stdout>>

Printed(r) ==
  /\ stdout' = stdout \o r.lines
  /\ exit_code' = IF r.raised THEN 1 ELSE 0

\* print_report, and the end of main: exit status 0, or 1 when print_report
\* raised.
PrintReport ==
  /\ pc = "print_report"
  /\ Printed(ReportLines(title, keywords, analysis_results))
  /\ pc' = "exited"
  /\ UNCHANGED <<argc, file, content, title, word_count, keywords,
                 analysis_results, returned>>

Next == MainUsage \/ MainStart \/ RunAnalysisFailed \/ RunAnalysis \/ PrintReport

Spec == Init /\ [][Next]_vars

\* ---------------------------------------------- the analyzer as an object
\* The methods of one BlogSEOAnalyzer called by a client in any order:
\* load_content once, then the scorers and the generator as often as wanted.

\* The most lines a composed document given to the object has.
MaxLinesAPI == 1

FilesAPI ==
  {[kind |-> "missing", text |-> ""], [kind |-> "unreadable", text |-> ""]}
  \cup {[kind |-> "text", text |-> d] :
          d \in Composed(MaxLinesAPI)
                \cup {"# Hello\n\nShort text.", "# My Post\n\n" \o Rep("Foo the ", 12)}}

InitAPI ==
  /\ argc = 2
  /\ file \in FilesAPI
  /\ pc = "new"
  /\ Constructed
  /\ stdout = <<>>
  /\ exit_code = -1

\* load_content: True with title and content set, or False after one line
\* of error.
LoadContent ==
  /\ pc = "new"
  /\ IF file.kind = "text"
     THEN /\ title' = ExtractTitle(title, file.text)
          /\ content' = CleanMarkdown(file.text)
          /\ pc' = "loaded"
          /\ stdout' = stdout
     ELSE /\ pc' = "failed"
          /\ stdout' = stdout \o LoadError(file)
          /\ UNCHANGED <<title, content>>
  /\ UNCHANGED <<argc, file, word_count, keywords, analysis_results, returned,
                 exit_code>>

CallAnalyzeTitle ==
  /\ pc = "loaded"
  /\ returned' = [returned EXCEPT !["analyze_title"] = <<AnalyzeTitle(title)>>]
  /\ UNCHANGED <<argc, file, pc, content, title, word_count, keywords,
                 analysis_results, stdout, exit_code>>

\* analyze_content returning ca: it sets self.word_count and self.keywords.
ContentReturned(ca) ==
  /\ word_count' = ca.word_count
  /\ keywords' = ca.all_keywords
  /\ returned' = [returned EXCEPT !["analyze_content"] =
                    <<[k \in DOMAIN ca \ {"all_keywords", "div_by_zero"} |-> ca[k]]>>]

\* CallAnalyzeContent with an analyze_content that keeps the lower-cased
\* text in self.content.
CallAnalyzeContentLowering ==
  /\ pc = "loaded"
  /\ ContentReturned(AnalyzeContent(content))
  /\ content' = Lower(content)
  /\ UNCHANGED <<argc, file, pc, title, analysis_results, stdout, exit_code>>

CallAnalyzeContent ==
  /\ pc = "loaded"
  /\ ContentReturned(AnalyzeContent(content))
  /\ UNCHANGED <<argc, file, pc, content, title, analysis_results, stdout, exit_code>>

CallAnalyzeStructure ==
  /\ pc = "loaded"
  /\ returned' = [returned EXCEPT !["analyze_structure"] = <<AnalyzeStructure(content)>>]
  /\ UNCHANGED <<argc, file, pc, content, title, word_count, keywords,
                 analysis_results, stdout, exit_code>>

CallGenerateMetaDescription ==
  /\ pc = "loaded"
  /\ returned' = [returned EXCEPT !["generate_meta_description"] =
                    <<GenerateMetaDescription(title, content)>>]
  /\ UNCHANGED <<argc, file, pc, content, title, word_count, keywords,
                 analysis_results, stdout, exit_code>>

NextAPI ==
  \/ LoadContent
  \/ CallAnalyzeTitle
  \/ CallAnalyzeContent
  \/ CallAnalyzeStructure
  \/ CallGenerateMetaDescription

SpecAPI == InitAPI /\ [][NextAPI]_vars

\* ------------------------------------------------------------ the claims

\* run_analysis has filled analysis_results.
HasResults == DOMAIN analysis_results # {}

Abs(x) == IF x < 0 THEN -x ELSE x

InRange(x) == x >= 0 /\ x <= 100

\* overall, in tenths, is the tenth nearest to the mean of the three scores.
IsRoundedMean(overall, ts, cs, ss) == 2 * Abs(3 * overall - 10 * (ts + cs + ss)) <= 3

ScoresOk(ts, cs, ss, overall) ==
  /\ InRange(ts) /\ InRange(cs) /\ InRange(ss)
  /\ overall >= 0 /\ overall <= 1000
  /\ IsRoundedMean(overall, ts, cs, ss)
  /\ (<<ts, cs, ss>> = <<60, 60, 65>> => overall = 617)
  /\ (<<ts, cs, ss>> = <<0, 60, 65>> => overall = 417)

\* C1: for every document that loads, the title, content and structure
\* scores lie in [0, 100], and overall_score lies in [0, 100] and is their
\* mean rounded to one decimal: 60, 60, 65 gives 61.7 and 0, 60, 65 gives
\* 41.7 (overall_score is held in tenths).
C1_ScoresAndOverall ==
  HasResults =>
    ScoresOk(analysis_results.title_analysis.score,
             analysis_results.content_analysis.score,
             analysis_results.structure_analysis.score,
             analysis_results.overall_score)

\* '# Hello' over 'Short text.' has been analysed: 60, 60, 65 and 61.7.
C1_Witness ==
  /\ HasResults
  /\ file.text = "# Hello\n\nShort text."
  /\ analysis_results.title_analysis.score = 60
  /\ analysis_results.content_analysis.score = 60
  /\ analysis_results.structure_analysis.score = 65
  /\ analysis_results.overall_score = 617

\* The report was printed to its end: the meta description and the closing
\* rule are its last two lines.
ReportComplete(out) ==
  /\ Len(out) >= 2
  /\ out[Len(out)][1] = "=="
  /\ out[Len(out) - 1][1] = "meta"

\* C2: whenever the file is read (any text, the empty file and a document
\* without a title included), main prints the full report without raising
\* and the process exits with status 0.
C2_ReportPrintedExitZero ==
  (pc = "exited" /\ argc = 2 /\ file.kind = "text") =>
    (exit_code = 0 /\ ReportComplete(stdout))

\* C3: when loading fails, exactly one error line is printed, no scorer and
\* no generator runs (the fields stay as __init__ set them, analysis_results
\* stays empty), print_report is not reached and the process exits with
\* status 1.
C3_LoadFailure ==
  (argc = 2 /\ file.kind # "text") =>
    /\ pc # "print_report"
    /\ ~HasResults
    /\ content = "" /\ title = "" /\ word_count = 0 /\ keywords = <<>>
    /\ pc = "exited" =>
         /\ exit_code = 1
         /\ Len(stdout) = 1
         /\ stdout[1][1] = (IF file.kind = "missing" THEN "Error: File not found."
                            ELSE "Error reading file:")

\* A missing file has ended the process.
C3_Witness ==
  /\ pc = "exited" /\ argc = 2 /\ file.kind = "missing"
  /\ exit_code = 1 /\ Len(stdout) = 1

HeadingPenalty(sa) ==
  /\ sa.headings_count = 0
  /\ sa.issues # <<>>
  /\ sa.issues[1] = "Few or no subheadings (H2-H6)"
  /\ sa.score <= 80

\* C4 as stated: for every document headings_count is 0 and the penalty for
\* few sub-headings is applied.
C4_HeadingsAlwaysZero == HasResults => HeadingPenalty(analysis_results.structure_analysis)

\* The start of the line position j lies in.
LineStart(t, j) == LastIn(1, j, LAMBDA i : AtLineStart(t, i))

\* A heading line starts at i: 1 to 6 '#', then a space or a tab.
HeadingLineAt(t, i) ==
  /\ Ch(t, i) = "#"
  /\ SkipHashes(t, i) - i <= 6
  /\ Ch(t, SkipHashes(t, i)) \in {" ", "\t"}

\* Every '#' of t stands in a heading line.
OnlyHeadingHashes(t) ==
  \A j \in 1..Len(t) : Ch(t, j) = "#" => HeadingLineAt(t, LineStart(t, j))

\* C4, amended: for every document whose '#' characters all stand in heading
\* lines (1 to 6 '#' at the line start, then a space or a tab), headings_count
\* is 0 and the penalty for few sub-headings is applied.
C4_HeadingLinesNotCounted ==
  (HasResults /\ OnlyHeadingHashes(file.text)) =>
    HeadingPenalty(analysis_results.structure_analysis)

\* A document with a title and a sub-heading line has been analysed.
C4_Witness ==
  /\ HasResults
  /\ file.text = "# My Post\n## Part"
  /\ analysis_results.structure_analysis.headings_count = 0

\* The meta description m of the cleaned text c, as C5 states it.
MetaOf(c, m) ==
  /\ Len(c) > 150 => Len(m) <= 150
  /\ Len(c) <= 150 => m = Collapse(c)

\* C5 as stated: for every document the meta description is at most 150
\* characters long when the cleaned text is longer than 150, and is the
\* whitespace-collapsed cleaned text otherwise.
C5_MetaOfEveryDocument == HasResults => MetaOf(content, analysis_results.meta_description)

\* m is the first 147 characters of the collapsed text and '...' when the
\* collapsed text is longer than 150.
MetaCut(collapsed, m) ==
  Len(collapsed) > 150 => m = SubSeq(collapsed, 1, 147) \o "..."

\* C5, amended: for every document with a title the meta description is as
\* C5 states it (the cut taken when the collapsed text is longer than 150);
\* for a document without a title it is the fixed sentence.
C5_MetaOfTitledDocument ==
  HasResults =>
    IF title # ""
    THEN /\ MetaOf(content, analysis_results.meta_description)
         /\ MetaCut(Collapse(content), analysis_results.meta_description)
    ELSE analysis_results.meta_description
           = "No title available for meta description generation"

\* A titled document with more than 150 characters of text has been analysed:
\* its meta description is 150 characters long.
C5_Witness ==
  /\ HasResults
  /\ title # ""
  /\ Len(content) > 150
  /\ Len(analysis_results.meta_description) = 150

\* A title line starts at i: one '#', one or more spaces, then content.
TitleLineAt(t, i) ==
  /\ AtLineStart(t, i)
  /\ Ch(t, i) = "#"
  /\ Ch(t, i + 1) = " "
  /\ LineEnd(t, i) - i >= 3

\* The title C6 states: the stripped text after the '#' of the title line
\* at i, none when there is no title line (i = 0).
StatedTitle(t, i) == IF i = 0 THEN "" ELSE Strip(SubSeq(t, i + 1, LineEnd(t, i) - 1))

TitleAsStated(t, i, tl, ta) ==
  /\ tl = StatedTitle(t, i)
  /\ i = 0 => (ta.score = 0 /\ Len(ta.issues) = 1)

\* C6: the title is the stripped text of the first line that is one '#',
\* spaces and content; without such a line the title is absent, the title
\* score is 0 and the title result has exactly one issue.
C6_TitleIsFirstTitleLine ==
  HasResults =>
    TitleAsStated(file.text, FirstIn(1, Len(file.text), LAMBDA i : TitleLineAt(file.text, i)),
                  title, analysis_results.title_analysis)

\* The first character of the line starting at i that is no space, tab or
\* carriage return.
FirstInk(t, i) == OrEnd(t, FirstIn(i, Len(t), LAMBDA j : Ch(t, j) \notin {" ", "\t", "\r"}))

\* A line whose first ink at k is 1 to 6 '#' and then whitespace or the end
\* of the line is a heading line.
IsHeadingInk(t, k) ==
  /\ Ch(t, k) = "#"
  /\ SkipHashes(t, k) - k <= 6
  /\ (IsSpace(Ch(t, SkipHashes(t, k))) \/ SkipHashes(t, k) > Len(t))

\* A line whose first ink at k is '-', '*' or '+' and then whitespace or the
\* end of the line starts with a bullet marker.
IsBulletInk(t, k) ==
  /\ Ch(t, k) \in {"-", "*", "+"}
  /\ (IsSpace(Ch(t, k + 1)) \/ k + 1 > Len(t))

\* The next '*' after the one at i is its neighbour, or there is none.
NoEmphasisFrom(i, next) == next = 0 \/ next = i + 1

\* Text without markdown syntax: no heading line, no bullet marker at the
\* start of a line, no backtick (code fences, inline code), no '](' (links,
\* images), no two asterisks with text between them (emphasis).
PlainText(t) ==
  \A i \in 1..Len(t) :
    /\ AtLineStart(t, i) => (~IsHeadingInk(t, FirstInk(t, i)) /\ ~IsBulletInk(t, FirstInk(t, i)))
    /\ Ch(t, i) # Backtick
    /\ ~(Ch(t, i) = "]" /\ Ch(t, i + 1) = "(")
    /\ Ch(t, i) = "*" => NoEmphasisFrom(i, Find(t, i + 1, "*"))

\* C7: on text without markdown syntax _clean_markdown only trims the
\* whitespace at both ends, and cleaning its result again changes nothing.
C7_CleanPlainText ==
  (HasResults /\ PlainText(file.text)) =>
    (content = Strip(file.text) /\ CleanMarkdown(content) = content)

\* A plain text with '#', '*', '-', brackets and whitespace at its start has
\* been cleaned.
C7_Witness ==
  /\ HasResults
  /\ PlainText(file.text)
  /\ Find(file.text, 1, "#") # 0
  /\ Find(file.text, 1, "*") # 0
  /\ content # file.text
  /\ content # ""

Has(issues, issue) == \E i \in 1..Len(issues) : issues[i] = issue

\* C8: no scorer raises: with keywords (the case the density division is
\* reached in) word_count is at least 2, so the division is never by zero;
\* the empty document has word_count 0, no keywords, and the content score 60
\* of the one penalty for short content.
C8_ScorersTotal ==
  (file.kind = "text" /\ pc \in {"print_report", "exited"}) =>
    /\ HasResults
    /\ keywords # <<>> => word_count >= 2
    /\ file.text = "" =>
         /\ word_count = 0
         /\ keywords = <<>>
         /\ analysis_results.content_analysis.score = 60
         /\ analysis_results.content_analysis.issues = <<"Content too short (< 300 words)">>

\* A document of three words, two of them its keyword, has been analysed: the
\* density division was reached with the smallest word counts keywords allow.
C8_Witness ==
  /\ HasResults
  /\ keywords # <<>>
  /\ word_count <= 3
  /\ Has(analysis_results.content_analysis.issues,
         "High keyword density (> 3% - may be keyword stuffing)")

\* C9: once load_content has returned True, no scorer and no generator
\* changes self.content or self.title, and what each of them returns is what
\* it returned before, in whatever order and however often they are called.
C9_ScorersKeepTextAndResults ==
  [][pc = "loaded" =>
       /\ content' = content
       /\ title' = title
       /\ \A m \in DOMAIN returned : returned[m] # <<>> => returned'[m] = returned[m]]_vars

\* All four have returned for a titled document with upper-case text.
C9_Witness ==
  /\ pc = "loaded"
  /\ title # ""
  /\ content # Lower(content)
  /\ \A m \in DOMAIN returned : returned[m] # <<>>

\* C10: the penalties for short content and for low keyword density never
\* meet in one document, and the content score is one of 100, 90, 85, 80,
\* 75, 60 and 50.
C10_ContentScores ==
  HasResults =>
    /\ ~(/\ Has(analysis_results.content_analysis.issues, "Content too short (< 300 words)")
         /\ Has(analysis_results.content_analysis.issues, "Low keyword density (< 0.5%)"))
    /\ analysis_results.content_analysis.score \in {100, 90, 85, 80, 75, 60, 50}

\* A short document with keywords has been analysed: the density penalty it
\* gets is the one for a high density.
C10_Witness ==
  /\ HasResults
  /\ word_count < MinWords
  /\ keywords # <<>>
  /\ analysis_results.content_analysis.score = 50

====
